---------------------------- MODULE Spec2Model ----------------------------
(***************************************************************************)
(* A model of parallel_map (src/utils.py): one call of the function, from  *)
(* the warm-up ("front") invocations through the serial loop or the thread *)
(* pool to the collection loop and the return or raise that ends the call. *)
(*                                                                         *)
(* Python values are records with the same fields whatever their type:     *)
(*   an int       [tag |-> "int",  v |-> n, items |-> <<>>, name |-> ""]   *)
(*   a list of    [tag |-> "list", v |-> 0, items |-> <<n1, n2>>, ...]     *)
(*     ints                                                                *)
(*   an exception [tag |-> "exc",  v |-> k, items |-> <<>>, name |-> cls]  *)
(* The field v of an exception is the position (1-based) of the input      *)
(* whose handling created it: it stands for the identity of the exception  *)
(* object, which is what tells two ZeroDivisionErrors apart in Python.     *)
(***************************************************************************)
EXTENDS Integers, Sequences, FiniteSets, TLC

(* Bounds of the model. *)
MaxLen == 3
MaxJobs == 2
MaxFront == 2

(* The elements an input may hold: `function` raises on 0. *)
Elements == {0, 1, 2}

(* The work functions of the model: floordiv is lambda x: 10 // x, divmod  *)
(* is lambda x: [10 // x, 10 % x]; both raise ZeroDivisionError on 0.      *)
Functions == {"floordiv", "divmod"}

(* The custom accumulators: none, or lambda x, out: out.insert(0, x).      *)
AddFuncs == {"none", "insert_front"}

IntVal(n) == [tag |-> "int", v |-> n, items |-> <<>>, name |-> ""]
ListVal(s) == [tag |-> "list", v |-> 0, items |-> s, name |-> ""]
Exc(cls, k) == [tag |-> "exc", v |-> k, items |-> <<>>, name |-> cls]
NoVal == [tag |-> "none", v |-> 0, items |-> <<>>, name |-> ""]

(* The initial_value arguments: None or [] (both <<>>), or the list [7].   *)
InitialValues == {<<>>, <<IntVal(7)>>}

BoundedSeq(S, n) == UNION {[1..m -> S] : m \in 0..n}

VARIABLES
    elements,        \* the elements of the `iterables` argument, in order
    is_mapping,      \* is_mapping[k]: element k is the dict {"x": elements[k]}
    is_list,         \* isinstance(iterables, list)
    use_kwargs, show_progress_bar,
    function,        \* the `function` argument (a name of Functions)
    n_jobs, front_num, raise_errors, include_errors,
    extend_result, return_output, add_func,
    initial_elems,   \* the elements of initial_value when the call starts
    initial_value,   \* the caller's initial_value list object, as it is now
    pc,              \* the position of the calling thread
    front,           \* the local list `front`
    iterables,       \* what is left of `iterables` (slice or iterator)
    output,          \* the list object the local `output` refers to
    aliased,         \* output is the caller's initial_value object
    futures,         \* the local list `futures`
    completed,       \* positions in futures, in order of completion
    taken,           \* the futures whose work item a worker holds, unstarted
    yielded,         \* how many futures as_completed(futures) has yielded
    i,               \* the index of the running loop (front or futures)
    invoked,         \* how many times function was called on each input
    pool,            \* the thread pool: "none", "open" or "shutdown"
    reports,         \* the updates of each of the three tqdm bars so far
    outcome          \* how the call ended

config == <<elements, is_mapping, is_list, use_kwargs, show_progress_bar,
            function, n_jobs, front_num, raise_errors, include_errors,
            extend_result, return_output, add_func, initial_elems>>
vars == <<config, initial_value, pc, front, iterables, output, aliased,
          futures, completed, taken, yielded, i, invoked, pool, reports,
          outcome>>

Pending == [kind |-> "pending", list |-> <<>>, exc |-> NoVal]
ReturnList(out) == [kind |-> "list", list |-> out, exc |-> NoVal]
ReturnNone == [kind |-> "none", list |-> <<>>, exc |-> NoVal]
Raise(e) == [kind |-> "raise", list |-> <<>>, exc |-> e]

(* Line 45: `function` called on the input at position k, whose number is  *)
(* a, unpacked as keyword arguments if use_kwargs: the value returned, or  *)
(* the exception raised.  A number cannot be unpacked as keyword arguments *)
(* and a dict cannot divide 10: both are a TypeError.                      *)
Invoke(a, k) ==
    IF use_kwargs # is_mapping[k]
    THEN [ok |-> FALSE, val |-> Exc("TypeError", k)]
    ELSE IF a = 0 THEN [ok |-> FALSE, val |-> Exc("ZeroDivisionError", k)]
    ELSE IF function = "floordiv"
         THEN [ok |-> TRUE, val |-> IntVal(10 \div a)]
         ELSE [ok |-> TRUE, val |-> ListVal(<<10 \div a, 10 % a>>)]

(* Lines 45, 51 and 74: the call on the input at position k reaches the    *)
(* body of function.  With use_kwargs an element that is not a mapping     *)
(* cannot be unpacked: TypeError is raised while the call is set up and    *)
(* function is not entered.  (A dict passed positionally does enter it.)   *)
Enters(k) == ~(use_kwargs /\ ~is_mapping[k])

(* The calls of function so far, after the call on the input at k. *)
Called(k) == [invoked EXCEPT ![k] = IF Enters(k) THEN @ + 1 ELSE @]

(* list.extend(x): x must be iterable; an int or an exception is not.      *)
Extend(x, out, k) ==
    IF x.tag = "list"
    THEN [ok |-> TRUE,
          out |-> out \o [n \in 1..Len(x.items) |-> IntVal(x.items[n])],
          exc |-> NoVal]
    ELSE [ok |-> FALSE, out |-> out, exc |-> Exc("TypeError", k)]

(* _add_func without its first test: the value is added also when no       *)
(* output is returned.                                                     *)
AddFuncAlways(x, out, k) ==
    IF add_func # "none"
    THEN [ok |-> TRUE, out |-> <<x>> \o out, exc |-> NoVal]
    ELSE IF extend_result THEN Extend(x, out, k)
         ELSE [ok |-> TRUE, out |-> Append(out, x), exc |-> NoVal]

(* _add_func(x, output), called while handling the input at position k:   *)
(* the list after the call, or the exception the call raises.              *)
AddFunc(x, out, k) ==
    IF ~return_output THEN [ok |-> TRUE, out |-> out, exc |-> NoVal]
    ELSE IF add_func # "none"
         THEN [ok |-> TRUE, out |-> <<x>> \o out, exc |-> NoVal]
         ELSE IF extend_result THEN Extend(x, out, k)
              ELSE [ok |-> TRUE, out |-> Append(out, x), exc |-> NoVal]

(* The position in `elements` of the head of `iterables`. *)
Pos == Len(elements) - Len(iterables) + 1

(* The caller's list after `output` became out. *)
Seen(out) == IF aliased THEN out ELSE initial_value

(* No tqdm bar has been updated. *)
NoReports == [serial |-> 0, completed |-> 0, collect |-> 0]

(* The local state of parallel_map when the call starts. *)
Entered ==
    /\ initial_value = initial_elems
    /\ pc = "front"
    /\ front = <<>>
    /\ iterables = elements
    /\ output = <<>>
    /\ aliased = FALSE
    /\ futures = <<>>
    /\ completed = <<>>
    /\ taken = {}
    /\ yielded = 0
    /\ i = 1
    /\ invoked = [k \in 1..Len(elements) |-> 0]
    /\ pool = "none"
    /\ reports = NoReports
    /\ outcome = Pending

(* The elements of the calls made with any arguments. *)
FewElements == {0, 1}

(* Arguments that are not read are left at one value: include_errors is    *)
(* read only when raise_errors is false (lines 98-100), extend_result only *)
(* when add_func is None (lines 59-63); and the function that returns a    *)
(* list is passed where a list is consumed, by list.extend.                *)
ArgumentsRead ==
    /\ raise_errors => include_errors
    /\ add_func # "none" => ~extend_result
    /\ function = "divmod" => (extend_result /\ add_func = "none")

(* Calls with any n_jobs and front_num, the preconditions of the docstring *)
(* broken or not, with and without use_kwargs and show_progress_bar, on    *)
(* numbers and dicts; the plain accumulation, function lambda x: 10 // x.  *)
InitAnyArgs ==
    /\ elements \in BoundedSeq(FewElements, MaxLen)
    /\ is_mapping \in [1..Len(elements) -> BOOLEAN]
    /\ is_list \in BOOLEAN
    /\ use_kwargs \in BOOLEAN
    /\ show_progress_bar \in BOOLEAN
    /\ function = "floordiv"
    /\ n_jobs \in 0..MaxJobs
    /\ front_num \in -1..MaxFront
    /\ raise_errors \in BOOLEAN
    /\ include_errors \in BOOLEAN
    /\ extend_result = FALSE
    /\ return_output \in BOOLEAN
    /\ add_func = "none"
    /\ initial_elems = <<>>
    /\ ArgumentsRead
    /\ Entered

(* Calls that keep the preconditions (n_jobs >= 1, front_num >= 0), on     *)
(* numbers passed positionally, with the default show_progress_bar.        *)
Init ==
    /\ elements \in BoundedSeq(Elements, MaxLen)
    /\ is_mapping = [k \in 1..Len(elements) |-> FALSE]
    /\ is_list \in BOOLEAN
    /\ use_kwargs = FALSE
    /\ show_progress_bar = TRUE
    /\ function \in Functions
    /\ n_jobs \in 1..MaxJobs
    /\ front_num \in 0..MaxFront
    /\ raise_errors \in BOOLEAN
    /\ include_errors \in BOOLEAN
    /\ extend_result \in BOOLEAN
    /\ return_output \in BOOLEAN
    /\ add_func \in AddFuncs
    /\ initial_elems \in InitialValues
    /\ ArgumentsRead
    /\ Entered

(* How many elements the warm-up takes when nothing stops it: the length   *)
(* of the slice iterables[:front_num] of a list (a negative front_num      *)
(* counts from the end), the length of range(front_num) for an iterator.   *)
FrontTarget(lst) ==
    IF lst
    THEN IF front_num >= 0
         THEN (IF front_num <= Len(elements) THEN front_num
               ELSE Len(elements))
         ELSE (IF Len(elements) + front_num >= 0
               THEN Len(elements) + front_num ELSE 0)
    ELSE IF front_num >= 0 THEN front_num ELSE 0

(* The warm-up recording an exception of function and going on. *)
FrontCallContinue ==
    /\ pc = "front"
    /\ Len(front) < FrontTarget(is_list)
    /\ iterables # <<>>
    /\ invoked' = Called(Pos)
    /\ iterables' = Tail(iterables)
    /\ front' = Append(front, Invoke(Head(iterables), Pos).val)
    /\ UNCHANGED <<config, taken, yielded>>
    /\ UNCHANGED <<initial_value, pc, outcome, output, aliased,
                   futures, completed, i, pool, reports>>

(* Lines 45 and 49-51: one more warm-up invocation.  An exception of       *)
(* function leaves parallel_map at once.                                   *)
FrontCall ==
    /\ pc = "front"
    /\ Len(front) < FrontTarget(is_list)
    /\ iterables # <<>>
    /\ LET r == Invoke(Head(iterables), Pos)
       IN /\ invoked' = Called(Pos)
          /\ iterables' = Tail(iterables)
          /\ IF r.ok
             THEN /\ front' = Append(front, r.val)
                  /\ UNCHANGED <<pc, outcome>>
             ELSE /\ pc' = "done"
                  /\ outcome' = Raise(r.val)
                  /\ UNCHANGED front
    /\ UNCHANGED <<config, taken, yielded>>
    /\ UNCHANGED <<initial_value, output, aliased, futures,
                   completed, i, pool, reports>>

(* Line 50 on an iterator that has no element left: next() raises          *)
(* StopIteration.  A list is sliced instead and the slice is just shorter. *)
FrontStopIteration ==
    /\ pc = "front"
    /\ Len(front) < FrontTarget(is_list)
    /\ iterables = <<>>
    /\ ~is_list
    /\ pc' = "done"
    /\ outcome' = Raise(Exc("StopIteration", Pos))
    /\ UNCHANGED <<config, taken, yielded>>
    /\ UNCHANGED <<initial_value, front, iterables, output, aliased,
                   futures, completed, i, invoked, pool, reports>>

(* output = list(): the initial value is left out. *)
InitialOutputEmpty == <<>>

(* Line 67: output = initial_value or list(). *)
InitialOutput == initial_value

(* Lines 46 and 67: the warm-up is over; output is bound. *)
FrontDone ==
    /\ pc = "front"
    /\ Len(front) = FrontTarget(is_list)
    /\ output' = InitialOutput
    /\ aliased' = (initial_value # <<>>)
    /\ pc' = "add_front"
    /\ i' = 1
    /\ UNCHANGED <<config, taken, yielded>>
    /\ UNCHANGED <<initial_value, front, iterables, futures,
                   completed, invoked, pool, reports, outcome>>

(* Lines 68-69: one warm-up result goes into output. *)
AddFront ==
    /\ pc = "add_front"
    /\ i <= Len(front)
    /\ LET r == AddFunc(front[i], output, i)
       IN /\ output' = r.out
          /\ initial_value' = Seen(r.out)
          /\ IF r.ok
             THEN /\ i' = i + 1
                  /\ UNCHANGED <<pc, outcome>>
             ELSE /\ pc' = "done"
                  /\ outcome' = Raise(r.exc)
                  /\ UNCHANGED i
    /\ UNCHANGED <<config, taken, yielded>>
    /\ UNCHANGED <<front, iterables, aliased, futures, completed,
                   invoked, pool, reports>>

(* Lines 72 and 79: the serial loop, or the thread pool, whose constructor *)
(* raises ValueError when max_workers <= 0.                                *)
Dispatch ==
    /\ pc = "add_front"
    /\ i > Len(front)
    /\ IF n_jobs = 1
       THEN /\ pc' = "serial"
            /\ UNCHANGED <<pool, outcome>>
       ELSE IF n_jobs < 1
            THEN /\ pc' = "done"
                 /\ outcome' = Raise(Exc("ValueError", 0))
                 /\ UNCHANGED pool
            ELSE /\ pc' = "submit"
                 /\ pool' = "open"
                 /\ UNCHANGED outcome
    /\ UNCHANGED <<config, taken, yielded>>
    /\ UNCHANGED <<initial_value, front, iterables, output, aliased,
                   futures, completed, i, invoked, reports>>

(* A tqdm bar that has made n updates, after `times` more iterations. *)
Updated(n, times, disable) == IF disable THEN n ELSE n + times

(* Lines 74-75: the body of the serial loop for the element a at position *)
(* k.  Nothing catches an exception here.                                  *)
SerialStep(a, out, k) ==
    LET r == Invoke(a, k)
    IN IF r.ok THEN AddFunc(r.val, out, k)
       ELSE [ok |-> FALSE, out |-> out, exc |-> r.val]

(* Lines 73-75: one iteration of the serial loop, under tqdm(iterables),   *)
(* which counts an iteration when the body of the loop has returned: the   *)
(* iteration that raises is not counted.                                   *)
Serial ==
    /\ pc = "serial"
    /\ iterables # <<>>
    /\ LET s == SerialStep(Head(iterables), output, Pos)
       IN /\ invoked' = Called(Pos)
          /\ iterables' = Tail(iterables)
          /\ output' = s.out
          /\ initial_value' = Seen(s.out)
          /\ IF s.ok
             THEN /\ reports' = [reports EXCEPT
                                    !.serial = Updated(@, 1, FALSE)]
                  /\ UNCHANGED <<pc, outcome>>
             ELSE /\ pc' = "done"
                  /\ outcome' = Raise(s.exc)
                  /\ UNCHANGED reports
    /\ UNCHANGED <<config, taken, yielded>>
    /\ UNCHANGED <<front, aliased, futures, completed, i, pool>>

(* Line 77 and line 103: return output if return_output else None. *)
ReturnValue(out) == IF return_output THEN ReturnList(out) ELSE ReturnNone

(* Line 77: the serial loop is over. *)
SerialReturn ==
    /\ pc = "serial"
    /\ iterables = <<>>
    /\ pc' = "done"
    /\ outcome' = ReturnValue(output)
    /\ UNCHANGED <<config, taken, yielded>>
    /\ UNCHANGED <<initial_value, front, iterables, output, aliased,
                   futures, completed, i, invoked, pool, reports>>

NoResult == [ok |-> TRUE, val |-> NoVal]

(* A submission that fails leaving parallel_map without the with block. *)
SubmitNoUnwind ==
    /\ pc = "submit"
    /\ iterables # <<>>
    /\ IF use_kwargs /\ ~is_mapping[Pos]
       THEN /\ pc' = "done"
            /\ outcome' = Raise(Exc("TypeError", Pos))
            /\ iterables' = Tail(iterables)
            /\ UNCHANGED futures
       ELSE /\ futures' = Append(futures,
                              [arg |-> Head(iterables), pos |-> Pos,
                               state |-> "pending", result |-> NoResult])
            /\ iterables' = Tail(iterables)
            /\ UNCHANGED <<pc, outcome>>
    /\ UNCHANGED <<config, taken, yielded>>
    /\ UNCHANGED <<initial_value, front, output, aliased,
                   completed, i, invoked, pool, reports>>

(* Lines 80-83: pool.submit(function, **a) if use_kwargs else              *)
(* pool.submit(function, a), for the next element.  Unpacking an element   *)
(* that is not a mapping raises TypeError in the calling thread: the       *)
(* exception leaves the with block, which first waits for the futures      *)
(* submitted so far.  The comprehension has taken the element by then.     *)
Submit ==
    /\ pc = "submit"
    /\ iterables # <<>>
    /\ IF use_kwargs /\ ~is_mapping[Pos]
       THEN /\ pc' = "unwind"
            /\ outcome' = Raise(Exc("TypeError", Pos))
            /\ iterables' = Tail(iterables)
            /\ UNCHANGED futures
       ELSE /\ futures' = Append(futures,
                              [arg |-> Head(iterables), pos |-> Pos,
                               state |-> "pending", result |-> NoResult])
            /\ iterables' = Tail(iterables)
            /\ UNCHANGED <<pc, outcome>>
    /\ UNCHANGED <<config, taken, yielded>>
    /\ UNCHANGED <<initial_value, front, output, aliased,
                   completed, i, invoked, pool, reports>>

Running == {k \in 1..Len(futures) : futures[k].state = "running"}

(* The work items the worker threads hold: taken and not started, or      *)
(* running.  A worker thread holds one work item at a time.                *)
Held == taken \cup Running

(* A pool that has a worker thread for every work item. *)
CanTakeUnbounded(k) ==
    /\ futures[k].state = "pending"
    /\ k \notin taken
    /\ \A j \in 1..(k - 1) : futures[j].state = "pending" => j \in taken

(* ThreadPoolExecutor(max_workers=n_jobs): the work items are taken from   *)
(* the queue, oldest first, by at most n_jobs worker threads; a thread     *)
(* that holds a work item takes no other.                                  *)
CanTake(k) ==
    /\ futures[k].state = "pending"
    /\ k \notin taken
    /\ \A j \in 1..(k - 1) : futures[j].state = "pending" => j \in taken
    /\ Cardinality(Held) < n_jobs

(* A worker thread takes the work item of futures[k] from the queue: the   *)
(* future stays pending until that thread runs the item.                   *)
Take(k) ==
    /\ CanTake(k)
    /\ taken' = taken \cup {k}
    /\ UNCHANGED <<config, yielded, initial_value, pc, front, iterables,
                   output, aliased, futures, completed, i, invoked, pool,
                   reports, outcome>>

(* The worker thread that holds the work item of futures[k] runs it: the   *)
(* future is running and function is called.  The threads that hold items  *)
(* start them in any order.                                                *)
Start(k) ==
    /\ k \in taken
    /\ taken' = taken \ {k}
    /\ futures' = [futures EXCEPT ![k].state = "running"]
    /\ invoked' = [invoked EXCEPT ![futures[k].pos] = @ + 1]
    /\ UNCHANGED <<config, yielded, initial_value, pc, front, iterables,
                   output, aliased, completed, i, pool, reports, outcome>>

(* function returns or raises in the worker thread: the future is done. *)
Finish(k) ==
    /\ futures[k].state = "running"
    /\ futures' = [futures EXCEPT
                     ![k].state = "done",
                     ![k].result = Invoke(futures[k].arg, futures[k].pos)]
    /\ completed' = Append(completed, k)
    /\ UNCHANGED <<config, taken, yielded>>
    /\ UNCHANGED <<initial_value, pc, front, iterables, output,
                   aliased, i, invoked, pool, reports, outcome>>

(* A wait that is over only once some future has completed. *)
AllDoneAndSome ==
    /\ futures # <<>>
    /\ \A k \in 1..Len(futures) : futures[k].state = "done"

(* Every future is done: as_completed(futures) blocks no more and          *)
(* shutdown(wait=True) has nothing left to wait for.                       *)
AllDone == \A k \in 1..Len(futures) : futures[k].state = "done"

(* Lines 85-88: one iteration of the loop over as_completed(futures),      *)
(* which yields a future once it is done, whatever the other futures are   *)
(* doing; the tqdm bar, which show_progress_bar disables, counts it.       *)
AsCompleted ==
    /\ pc = "submit"
    /\ iterables = <<>>
    /\ yielded < Len(completed)
    /\ yielded' = yielded + 1
    /\ reports' = [reports EXCEPT !.completed =
                      Updated(@, 1, ~show_progress_bar)]
    /\ UNCHANGED <<config, taken, initial_value, pc, front, iterables,
                   output, aliased, futures, completed, i, invoked, pool,
                   outcome>>

(* The calling thread going on without waiting for the futures. *)
JoinNoWait ==
    /\ pc \in {"submit", "unwind"}
    /\ pc = "submit" => iterables = <<>>
    /\ pool' = "shutdown"
    /\ IF pc = "unwind"
       THEN /\ pc' = "done"
            /\ UNCHANGED <<i, outcome>>
       ELSE IF return_output
            THEN /\ pc' = "collect"
                 /\ i' = 1
                 /\ UNCHANGED outcome
            ELSE /\ pc' = "done"
                 /\ outcome' = ReturnNone
                 /\ UNCHANGED i
    /\ UNCHANGED <<config, taken, yielded, reports>>
    /\ UNCHANGED <<initial_value, front, iterables, output, aliased,
                   futures, completed, invoked>>

(* Lines 85-92: the end of the with block.  The loop over as_completed is  *)
(* over when every future has been yielded; leaving the with block,        *)
(* normally or with the exception of a failed submit, shuts the pool down  *)
(* after waiting for every future; then a call that returns no output      *)
(* returns None without looking at any future.                             *)
Join ==
    /\ pc \in {"submit", "unwind"}
    /\ pc = "submit" => (iterables = <<>> /\ yielded = Len(futures))
    /\ AllDone
    /\ pool' = "shutdown"
    /\ IF pc = "unwind"
       THEN /\ pc' = "done"
            /\ UNCHANGED <<i, outcome>>
       ELSE IF return_output
            THEN /\ pc' = "collect"
                 /\ i' = 1
                 /\ UNCHANGED outcome
            ELSE /\ pc' = "done"
                 /\ outcome' = ReturnNone
                 /\ UNCHANGED i
    /\ UNCHANGED <<config, taken, yielded, reports>>
    /\ UNCHANGED <<initial_value, front, iterables, output, aliased,
                   futures, completed, invoked>>

(* The futures read in the order in which they completed. *)
HarvestOrderCompleted == completed

(* Line 94: enumerate(futures), the order in which the futures are read. *)
HarvestOrder == [k \in 1..Len(futures) |-> k]

(* Lines 97-101: the except clause, for the exception e caught while the   *)
(* input at position k was collected.                                      *)
Handle(e, out, k) ==
    IF raise_errors THEN [ok |-> FALSE, out |-> out, exc |-> e]
    ELSE IF include_errors THEN AddFunc(e, out, k)
         ELSE [ok |-> TRUE, out |-> out, exc |-> NoVal]

(* The collection loop appending by itself instead of calling _add_func. *)
CollectStepAppend(f, out) ==
    IF f.result.ok
    THEN [ok |-> TRUE, out |-> Append(out, f.result.val), exc |-> NoVal]
    ELSE Handle(f.result.val, out, f.pos)

(* Lines 95-101: the body of the collection loop for the future f. *)
CollectStep(f, out) ==
    IF f.result.ok
    THEN LET s == AddFunc(f.result.val, out, f.pos)
         IN IF s.ok THEN s ELSE Handle(s.exc, out, f.pos)
    ELSE Handle(f.result.val, out, f.pos)

(* Lines 94-101: one iteration of the collection loop, under               *)
(* tqdm(enumerate(futures)), which counts an iteration when the body of    *)
(* the loop has returned: the iteration that raises is not counted.        *)
Collect ==
    /\ pc = "collect"
    /\ i <= Len(futures)
    /\ LET s == CollectStep(futures[HarvestOrder[i]], output)
       IN /\ output' = s.out
          /\ initial_value' = Seen(s.out)
          /\ IF s.ok
             THEN /\ i' = i + 1
                  /\ reports' = [reports EXCEPT
                                    !.collect = Updated(@, 1, FALSE)]
                  /\ UNCHANGED <<pc, outcome>>
             ELSE /\ pc' = "done"
                  /\ outcome' = Raise(s.exc)
                  /\ UNCHANGED <<i, reports>>
    /\ UNCHANGED <<config, taken, yielded>>
    /\ UNCHANGED <<front, iterables, aliased, futures, completed,
                   invoked, pool>>

(* Line 103: return output. *)
Return ==
    /\ pc = "collect"
    /\ i > Len(futures)
    /\ pc' = "done"
    /\ outcome' = ReturnList(output)
    /\ UNCHANGED <<config, taken, yielded>>
    /\ UNCHANGED <<initial_value, front, iterables, output, aliased,
                   futures, completed, i, invoked, pool, reports>>

(***************************************************************************)
(* The serial path as a function of the arguments: what a call with        *)
(* n_jobs = 1 does from line 44 to line 77.                                *)
(***************************************************************************)
Done(fr, its) == [ok |-> TRUE, front |-> fr, rest |-> its, exc |-> NoVal]
Failed(e) == [ok |-> FALSE, front |-> <<>>, rest |-> <<>>, exc |-> e]

RECURSIVE SerialFront(_, _, _)
(* Lines 44-51: the warm-up over the elements its, fr being done, of a     *)
(* list (lst) or of an iterator.                                           *)
SerialFront(lst, its, fr) ==
    IF Len(fr) = FrontTarget(lst) THEN Done(fr, its)
    ELSE IF its = <<>>
         THEN Failed(Exc("StopIteration", Len(elements) + 1))
         ELSE LET r == Invoke(Head(its), Len(elements) - Len(its) + 1)
              IN IF r.ok THEN SerialFront(lst, Tail(its), Append(fr, r.val))
                 ELSE Failed(r.val)

RECURSIVE SerialAddFront(_, _, _)
(* Lines 68-69: the warm-up results fr[j], fr[j+1], ... go into out. *)
SerialAddFront(fr, out, j) ==
    IF j > Len(fr) THEN [ok |-> TRUE, out |-> out, exc |-> NoVal]
    ELSE LET r == AddFunc(fr[j], out, j)
         IN IF r.ok THEN SerialAddFront(fr, r.out, j + 1) ELSE r

RECURSIVE SerialLoop(_, _)
(* Lines 73-77: the serial loop over the elements its, then the return. *)
SerialLoop(its, out) ==
    IF its = <<>> THEN ReturnValue(out)
    ELSE LET s == SerialStep(Head(its), out, Len(elements) - Len(its) + 1)
         IN IF s.ok THEN SerialLoop(Tail(its), s.out) ELSE Raise(s.exc)

(* Lines 44-77 with n_jobs = 1: how the call on these arguments ends when  *)
(* they are passed as a list (lst) or as an iterator.                      *)
SerialCallOn(lst) ==
    LET f == SerialFront(lst, elements, <<>>)
    IN IF ~f.ok THEN Raise(f.exc)
       ELSE LET a == SerialAddFront(f.front, initial_elems, 1)
            IN IF ~a.ok THEN Raise(a.exc) ELSE SerialLoop(f.rest, a.out)

(* Lines 44-77 with n_jobs = 1: how the call on these arguments ends. *)
SerialCall == SerialCallOn(is_list)

(* The serial actions and the serial function describe the same call. *)
SerialAgrees == (n_jobs = 1 /\ pc = "done") => outcome = SerialCall

Next ==
    \/ FrontCall
    \/ FrontStopIteration
    \/ FrontDone
    \/ AddFront
    \/ Dispatch
    \/ Serial
    \/ SerialReturn
    \/ Submit
    \/ \E k \in 1..Len(futures) : Take(k)
    \/ \E k \in 1..Len(futures) : Start(k)
    \/ \E k \in 1..Len(futures) : Finish(k)
    \/ AsCompleted
    \/ Join
    \/ Collect
    \/ Return

Spec == Init /\ [][Next]_vars

(* The steps of the thread that called parallel_map. *)
Caller ==
    \/ FrontCall
    \/ FrontStopIteration
    \/ FrontDone
    \/ AddFront
    \/ Dispatch
    \/ Serial
    \/ SerialReturn
    \/ Submit
    \/ AsCompleted
    \/ Join
    \/ Collect
    \/ Return

(* The steps of the worker threads of the pool. *)
Workers ==
    \/ \E k \in 1..Len(futures) : Take(k)
    \/ \E k \in 1..Len(futures) : Start(k)
    \/ \E k \in 1..Len(futures) : Finish(k)

(* The calls of Spec without initial value and custom accumulator, on the  *)
(* elements 0 and 1: function fails or returns.                            *)
InitPlain ==
    /\ Init
    /\ initial_elems = <<>>
    /\ add_func = "none"
    /\ \A k \in 1..Len(elements) : elements[k] \in FewElements

(* Every invocation of function terminates (Finish is always enabled for a *)
(* running task) and the threads are scheduled fairly: the calling thread  *)
(* takes its next step when it can, and so do the workers.                 *)
FairSpec ==
    InitPlain /\ [][Next]_vars /\ WF_vars(Caller) /\ WF_vars(Workers)

(* The calls made with any arguments. *)
SpecAnyArgs == InitAnyArgs /\ [][Next]_vars

(***************************************************************************)
(* Properties of the call.                                                 *)
(***************************************************************************)
N == Len(elements)
Positions == 1..N

(* function(elements[k]): what the work returns or raises on input k. *)
Work(k) == Invoke(elements[k], k)

(* The inputs the warm-up reaches when nothing fails. *)
WarmupPositions == {k \in Positions : k <= front_num}

NoFailure == \A k \in Positions : Work(k).ok
NoWarmupFailure == \A k \in WarmupPositions : Work(k).ok

(* next() never runs out: the input is a list or is long enough. *)
WarmupFits == is_list \/ front_num <= N

(* output.append is what accumulates: Append mode, no custom accumulator. *)
Appending == ~extend_result /\ add_func = "none"

(* No accumulation of a value returned by function can raise. *)
AccumulationSafe ==
    ~return_output \/ add_func # "none" \/ ~extend_result
        \/ function = "divmod"

Ended == pc = "done"
ReturnedList == Ended /\ outcome.kind = "list"

(* The futures completed in another order than they were submitted. *)
OutOfOrder == \E p, q \in 1..Len(completed) : p < q /\ completed[p] > completed[q]

(* C1: with Append and no failing task, the list a call returns holds the  *)
(* results of the inputs in input order at its end, whatever n_jobs and    *)
(* front_num are and in whatever order the futures completed.              *)
C1_OutputInInputOrder ==
    (ReturnedList /\ Appending /\ NoFailure) =>
        /\ Len(outcome.list) >= N
        /\ \A k \in Positions :
              outcome.list[Len(outcome.list) - N + k] = Work(k).val

C1_Witness ==
    /\ ReturnedList /\ Appending /\ NoFailure
    /\ n_jobs > 1
    /\ Len(futures) >= 2
    /\ OutOfOrder
    /\ \E p, q \in Positions : Work(p).val # Work(q).val

(* C2: with Append, no custom accumulator, return_output and no failing    *)
(* task, the list returned is the initial value, then the warm-up results  *)
(* in input order, then the dispatched results in input order; its length  *)
(* is len(initial_value) + len(inputs), also when front_num > len(inputs). *)
C2_InitialThenFrontThenRest ==
    (ReturnedList /\ Appending /\ return_output /\ NoFailure) =>
        /\ outcome.list = initial_elems \o front
                            \o [k \in 1..(N - Len(front)) |->
                                    Work(Len(front) + k).val]
        /\ front = [k \in 1..Len(front) |-> Work(k).val]
        /\ Len(front) = IF front_num <= N THEN front_num ELSE N
        /\ Len(outcome.list) = Len(initial_elems) + N

C2_Witness ==
    /\ ReturnedList /\ Appending /\ return_output /\ NoFailure
    /\ initial_elems # <<>>
    /\ front_num > N
    /\ N >= 1
    /\ Len(outcome.list) = Len(initial_elems) + N

(* C3: when no task fails (and no accumulation fails), a call with         *)
(* n_jobs > 1 ends as the call with n_jobs = 1 on the same arguments ends: *)
(* the same list is returned, for every interleaving of the pooled tasks.  *)
C3_PooledEqualsSerial ==
    (Ended /\ n_jobs > 1 /\ NoFailure /\ AccumulationSafe) =>
        outcome = SerialCall

C3_Witness ==
    /\ ReturnedList /\ n_jobs > 1 /\ NoFailure /\ AccumulationSafe
    /\ extend_result /\ add_func = "none"
    /\ Len(futures) >= 2
    /\ OutOfOrder
    /\ outcome = SerialCall

(* The list CollectAsEntry is to return: entry k is the exception of input *)
(* k when function failed on it and function's result otherwise.           *)
EntryPerInput == [k \in Positions |-> Work(k).val]

(* The list Suppress is to return: the results of the inputs that did not  *)
(* fail, in input order.                                                   *)
RECURSIVE SuccessesFrom(_)
SuccessesFrom(k) ==
    IF k > N THEN <<>>
    ELSE IF Work(k).ok THEN <<Work(k).val>> \o SuccessesFrom(k + 1)
         ELSE SuccessesFrom(k + 1)

FailureCount == Cardinality({k \in Positions : ~Work(k).ok})

(* A call whose output is the list of the entries alone. *)
PlainOutput == Appending /\ return_output /\ initial_elems = <<>>

(* C4: under CollectAsEntry (raise_errors false, include_errors true) with *)
(* Append, for every n_jobs >= 1, the call returns a list of length N      *)
(* whose entry k is the captured exception exactly when input k failed     *)
(* and is function(input k) otherwise.                                     *)
C4_CollectAsEntryKeepsPositions ==
    (Ended /\ ~raise_errors /\ include_errors /\ PlainOutput
           /\ WarmupFits /\ NoWarmupFailure) =>
        /\ outcome.kind = "list"
        /\ Len(outcome.list) = N
        /\ outcome.list = EntryPerInput

(* C5: under Suppress (raise_errors false, include_errors false) with      *)
(* Append and no warm-up failure, for every n_jobs >= 1, when k of the N   *)
(* tasks fail the call returns a list of length N - k holding the          *)
(* successful results in input order.                                      *)
C5_SuppressDropsFailures ==
    (Ended /\ ~raise_errors /\ ~include_errors /\ PlainOutput
           /\ WarmupFits /\ NoWarmupFailure) =>
        /\ outcome.kind = "list"
        /\ Len(outcome.list) = N - FailureCount
        /\ outcome.list = SuccessesFrom(1)

(* The inputs after the warm-up on which function fails. *)
DispatchedFailures == {k \in Positions : k > front_num /\ ~Work(k).ok}

(* C6: under Raise (raise_errors true), whenever a task after the warm-up  *)
(* fails, the call raises the error of such a task and returns nothing,    *)
(* for every n_jobs >= 1 and whether return_output is true or false.       *)
C6_RaisePolicyRaises ==
    (Ended /\ raise_errors /\ NoWarmupFailure /\ AccumulationSafe
           /\ DispatchedFailures # {}) =>
        /\ outcome.kind = "raise"
        /\ outcome.exc.name = "ZeroDivisionError"
        /\ outcome.exc.v \in DispatchedFailures

(* C7: on the serial path (n_jobs = 1) a failure after the warm-up is      *)
(* handled by the error policy as on the pooled path: the call raises only *)
(* under Raise, records the exception in place under CollectAsEntry and   *)
(* drops the entry under Suppress, going on with the remaining inputs.     *)
C7_SerialObeysErrorPolicy ==
    (Ended /\ n_jobs = 1 /\ PlainOutput /\ WarmupFits /\ NoWarmupFailure
           /\ DispatchedFailures # {}) =>
        /\ raise_errors => outcome.kind = "raise"
        /\ (~raise_errors /\ include_errors) =>
              outcome = ReturnList(EntryPerInput)
        /\ (~raise_errors /\ ~include_errors) =>
              outcome = ReturnList(SuccessesFrom(1))

(* The first input of the warm-up on which function fails, 0 if none. *)
FirstWarmupFailure ==
    IF NoWarmupFailure THEN 0
    ELSE CHOOSE k \in WarmupPositions :
            /\ ~Work(k).ok
            /\ \A j \in WarmupPositions : j < k => Work(j).ok

(* C8: when function fails on one of the first front_num inputs, the call  *)
(* raises that error whatever the error policy is, function is never       *)
(* called on a later input and nothing is ever submitted to the pool.      *)
C8_WarmupFailureRaisesAtOnce ==
    ~NoWarmupFailure =>
        /\ futures = <<>>
        /\ \A k \in Positions : k > FirstWarmupFailure => invoked[k] = 0
        /\ pc \in {"front", "done"}
        /\ Ended => outcome = Raise(Work(FirstWarmupFailure).val)

C8_Witness ==
    /\ Ended
    /\ ~NoWarmupFailure
    /\ FirstWarmupFailure < N
    /\ ~raise_errors /\ n_jobs > 1
    /\ invoked[FirstWarmupFailure] = 1
    /\ outcome.kind = "raise"

(* C9: with n_jobs > 1, at most n_jobs tasks are running in any state (at  *)
(* most n_jobs work items are held by the worker threads) and function is  *)
(* started at most once on every dispatched input.                         *)
C9_BoundedPoolStartsOnce ==
    n_jobs > 1 =>
        /\ Cardinality(Running) <= n_jobs
        /\ Cardinality(Held) <= n_jobs
        /\ \A k \in 1..Len(futures) : invoked[futures[k].pos] <= 1
        /\ \A k \in 1..Len(futures) :
              futures[k].state = "pending" => invoked[futures[k].pos] = 0

C9_Witness ==
    /\ n_jobs > 1
    /\ Cardinality(Running) = n_jobs
    /\ \E k \in 1..Len(futures) : futures[k].state = "pending"

(* C10: with return_output false and function succeeding on every input,   *)
(* the call never returns a list: it returns None (unless next() ran out   *)
(* of elements in the warm-up), and when it ends function has been called  *)
(* exactly once on every input, warm-up and dispatched alike.              *)
C10_NoOutputAllInvokedOnce ==
    (~return_output /\ NoFailure) =>
        /\ outcome.kind # "list"
        /\ Ended => \A k \in Positions : invoked[k] = 1
        /\ (Ended /\ WarmupFits) => outcome = ReturnNone

C10_Witness ==
    /\ Ended /\ ~return_output /\ NoFailure
    /\ outcome = ReturnNone
    /\ n_jobs > 1
    /\ front # <<>>
    /\ Len(futures) >= 2
    /\ \A k \in Positions : invoked[k] = 1

(* C11: a call with n_jobs < 1 or front_num < 0 fails with a precondition  *)
(* error raised at once: function is never called on any input, nothing is *)
(* submitted to a pool, and the call ends by raising, never by returning.  *)
C11_PreconditionsFailFast ==
    (n_jobs < 1 \/ front_num < 0) =>
        /\ \A k \in Positions : invoked[k] = 0
        /\ futures = <<>>
        /\ pool = "none"
        /\ Ended => outcome.kind = "raise"

(* The output list as the warm-up leaves it (lines 67-69). *)
AfterWarmup == SerialAddFront(front, initial_elems, 1).out

SomeUnfinished == \E k \in 1..Len(futures) : futures[k].state # "done"

(* C12: on the pooled path, as long as a submitted task is pending or      *)
(* running, the collection loop has not started and the output holds the   *)
(* warm-up entries only: no result is harvested before every task is done. *)
C12_NoHarvestBeforeAllDone ==
    (n_jobs > 1 /\ SomeUnfinished) =>
        /\ pc = "submit"
        /\ output = AfterWarmup
        /\ reports.collect = 0
        /\ outcome = Pending

C12_Witness ==
    /\ n_jobs > 1
    /\ pc = "collect"
    /\ i = 2
    /\ Len(futures) >= 2
    /\ OutOfOrder
    /\ output # AfterWarmup

(* The first input after the warm-up on which function fails. *)
FirstDispatchedFailure ==
    CHOOSE k \in DispatchedFailures : \A j \in DispatchedFailures : k <= j

(* C13: on the pooled path under Raise, the error the collection loop      *)
(* raises is that of the failing input with the smallest index, whatever   *)
(* the order of completion, and when it is raised every dispatched task,   *)
(* those after the failing one included, has run to completion.            *)
C13_RaisesFirstFailureAfterAllRan ==
    (Ended /\ n_jobs > 1 /\ raise_errors /\ outcome.kind = "raise"
           /\ NoWarmupFailure /\ WarmupFits /\ AccumulationSafe) =>
        /\ DispatchedFailures # {}
        /\ outcome = Raise(Work(FirstDispatchedFailure).val)
        /\ Len(futures) = N - Len(front)
        /\ AllDone
        /\ \A k \in 1..Len(futures) :
              /\ invoked[futures[k].pos] = 1
              /\ futures[k].result = Work(futures[k].pos)

C13_Witness ==
    /\ Ended /\ n_jobs > 1 /\ raise_errors /\ outcome.kind = "raise"
    /\ NoWarmupFailure /\ WarmupFits /\ AccumulationSafe
    /\ Cardinality(DispatchedFailures) >= 2
    /\ \E k \in Positions : k > FirstDispatchedFailure /\ Work(k).ok
    /\ \E p, q \in 1..Len(completed) :
          /\ p < q
          /\ futures[completed[q]].pos = FirstDispatchedFailure
          /\ ~futures[completed[p]].result.ok

(* Every accumulation of the dispatch phase raises and nothing else does:  *)
(* list.extend is given the int that function returns on every input, and  *)
(* there is no warm-up.                                                    *)
OnlyAccumulationFails ==
    /\ return_output /\ add_func = "none" /\ extend_result
    /\ function = "floordiv" /\ NoFailure
    /\ front_num = 0 /\ N >= 1

(* C14: an error raised while a value is accumulated into the output is    *)
(* handled by the error policy like a failure of function, on the serial   *)
(* and on the pooled path: it is raised again under Raise, and under       *)
(* CollectAsEntry and Suppress the call does not raise (under Suppress the *)
(* entry is dropped).                                                      *)
C14_AccumulationErrorObeysPolicy ==
    (Ended /\ OnlyAccumulationFails) =>
        /\ raise_errors => outcome = Raise(Exc("TypeError", 1))
        /\ ~raise_errors => outcome.kind = "list"
        /\ (~raise_errors /\ ~include_errors) =>
              outcome = ReturnList(initial_elems)

(* C15: the caller's initial_value list is left as it was by every call,   *)
(* in every state: it holds no result when the call returns and no partial *)
(* result when the call raises.                                            *)
C15_InitialValueUntouched == initial_value = initial_elems

(* C16: when the call has returned or raised, its pool is torn down: no    *)
(* future is pending or running and the pool, if one was made, is shut     *)
(* down; so it is with return_output false, when the collection loop       *)
(* raises and when a submission fails part-way.                            *)
C16_PoolTornDownAtEnd ==
    /\ Ended => /\ AllDone
                /\ Running = {}
                /\ pool \in {"none", "shutdown"}
                /\ futures # <<>> => pool = "shutdown"
    /\ pool = "open" => pc \in {"submit", "unwind"}

C16_Witness ==
    /\ Ended
    /\ use_kwargs
    /\ outcome.kind = "raise" /\ outcome.exc.name = "TypeError"
    /\ Len(futures) >= 1
    /\ Len(futures) < N - Len(front)
    /\ AllDone
    /\ pool = "shutdown"

(* C17: with return_output false the accumulation rule is never applied,   *)
(* be it append, extend or the custom accumulator: the output list and the *)
(* caller's initial_value stay as they were, no accumulation error is ever *)
(* raised, and on the pooled path the collection loop never runs, so that  *)
(* no result and no error of a future is retrieved.                        *)
C17_NoAccumulationWithoutOutput ==
    ~return_output =>
        /\ output \in {<<>>, initial_elems}
        /\ initial_value = initial_elems
        /\ pc # "collect"
        /\ reports.collect = 0
        /\ outcome.kind # "list"
        /\ outcome.kind = "raise" =>
              /\ outcome.exc.name \in {"ZeroDivisionError", "StopIteration"}
              /\ n_jobs > 1 => futures = <<>>

C17_Witness ==
    /\ Ended /\ ~return_output
    /\ n_jobs > 1
    /\ add_func = "insert_front"
    /\ initial_elems # <<>>
    /\ front # <<>>
    /\ raise_errors
    /\ \E k \in 1..Len(futures) : ~futures[k].result.ok
    /\ \E k \in 1..Len(futures) : futures[k].result.ok
    /\ outcome = ReturnNone

(* C18: when every invocation of function terminates and the threads are   *)
(* scheduled fairly, every call ends, by returning or by raising, with     *)
(* every submitted task done: the join is passed and the collection loop   *)
(* finishes.                                                               *)
C18_EveryCallEnds ==
    <>(Ended /\ \A k \in 1..Len(futures) : futures[k].state = "done")

C18_Witness ==
    /\ Ended
    /\ n_jobs > 1
    /\ outcome.kind = "list"
    /\ Len(futures) >= 2
    /\ reports.collect = Len(futures)
    /\ \A k \in 1..Len(futures) : futures[k].state = "done"

(* C19: the same elements passed as an iterator and as a list give the     *)
(* same outcome, the same list or the same error, for every front_num >= 0 *)
(* and also when front_num is larger than the number of elements.  (The    *)
(* outcome of the list is that of the serial function; the pooled call is  *)
(* compared with it where no task and no accumulation fails, see C3.)      *)
C19_IteratorAsList ==
    (Ended /\ ~is_list /\ (n_jobs = 1 \/ (NoFailure /\ AccumulationSafe))) =>
        outcome = SerialCallOn(TRUE)

(* C20: with show_progress_bar false no progress report is made in any     *)
(* phase, serial loop, completion of the pooled tasks or collection loop;  *)
(* with show_progress_bar true the pooled path makes exactly one report    *)
(* per completion of a dispatched task.                                    *)
C20_ProgressOnlyWhenShown ==
    /\ ~show_progress_bar => reports = NoReports
    /\ show_progress_bar =>
          /\ reports.completed = yielded
          /\ reports.completed <= Len(completed)
          /\ (pool = "shutdown" /\ outcome.kind # "raise") =>
                reports.completed = Len(futures)
=============================================================================
